---- MODULE Spec2Model ----
(***************************************************************************)
(* A model of the retrieval pipeline of src/src/simple_rag.py together     *)
(* with its collaborators (document_processor.py, qdrant_index.py,         *)
(* endpoint.py) and its two front ends (main.py, app.py).                  *)
(*                                                                         *)
(* Floating point sampling parameters are written in hundredths            *)
(* (0.1 is 10, 0.95 is 95).  Embedding vectors are pairs of small          *)
(* integers; the retrieved content, a string built as                      *)
(* text1 + "\n" + text2 + "\n" ..., is the sequence of the texts.          *)
(***************************************************************************)
EXTENDS Integers, Sequences, FiniteSets, TLC

VARIABLES
    frontend,             \* "main" (main.py), "app" (app.py) or "api" (a direct caller of simple_rag.py)
    pc,                   \* position of the front end
    simple_rag,           \* "None" or "SimpleRAG": the orchestrator reference held by the caller
    documents_dir,        \* processor.documents_dir
    document_titles,      \* processor.document_titles
    document_embeddings,  \* processor.document_embeddings
    index_created,        \* a QdrantIndex has been constructed for the orchestrator
    index,                \* the points of self.index, in id order
    params,               \* self.model, self.temperature, self.top_p, self.max_tokens
    requested,            \* the sampling arguments create_simple_rag was called with
    updates,              \* update_documents calls made on the current orchestrator
    session,              \* st.session_state of app.py
    upd,                  \* position and arguments of a running update_documents
    last                  \* the last call and what its caller observed

vars == <<frontend, pc, simple_rag, documents_dir, document_titles,
          document_embeddings, index_created, index, params, requested,
          updates, session, upd, last>>

rag_vars == <<simple_rag, documents_dir, document_titles, document_embeddings,
              index_created, index, params, requested, updates>>

-----------------------------------------------------------------------------
(* Bounds *)

\* update_documents calls explored on one orchestrator
MaxUpdates == 2

-----------------------------------------------------------------------------
(* Program constants *)

top_n == 3
DefaultModel == "llama3.2"
DefaultTemperature == 10
DefaultTopP == 95
DefaultMaxTokens == 3000

DefaultParams ==
    [model |-> DefaultModel, temperature |-> DefaultTemperature,
     top_p |-> DefaultTopP, max_tokens |-> DefaultMaxTokens]

\* A second choice of the sampling widgets / arguments.
CustomParams ==
    [model |-> "mistral", temperature |-> 70, top_p |-> 50, max_tokens |-> 800]

Configs == {DefaultParams, CustomParams}

-----------------------------------------------------------------------------
(* The file system the program runs against *)

Dirs == {"dA", "dB", "dE", "dU", "dX"}

\* os.path.isdir: dX does not exist.
DirExists(d) == d \in {"dA", "dB", "dE", "dU"}

\* os.listdir(d), in listing order.  utf8 = FALSE is a file whose bytes are
\* not valid UTF-8.
listdir(d) ==
    CASE d = "dA" -> << [name |-> "a.txt",    text |-> "cats",    utf8 |-> TRUE],
                        [name |-> "b.txt",    text |-> "rockets", utf8 |-> TRUE],
                        [name |-> "notes.md", text |-> "notes",   utf8 |-> TRUE] >>
      [] d = "dB" -> << [name |-> "b.txt",    text |-> "stars",   utf8 |-> TRUE],
                        [name |-> "c.txt",    text |-> "cats",    utf8 |-> TRUE] >>
      [] d = "dE" -> << [name |-> "readme.md", text |-> "notes",  utf8 |-> TRUE] >>
      [] d = "dU" -> << [name |-> "d.txt",    text |-> "dogs",    utf8 |-> TRUE],
                        [name |-> "e.txt",    text |-> "bytes",   utf8 |-> FALSE] >>
      [] OTHER    -> << >>

\* filename.endswith(".txt")
EndsWithTxt(filename) == filename \in {"a.txt", "b.txt", "c.txt", "d.txt", "e.txt"}

\* The file d/title, or NoFile.
NoFile == [name |-> "", text |-> "", utf8 |-> FALSE]
FileAt(d, title) ==
    IF DirExists(d) /\ \E i \in 1..Len(listdir(d)) : listdir(d)[i].name = title
    THEN listdir(d)[CHOOSE i \in 1..Len(listdir(d)) : listdir(d)[i].name = title]
    ELSE NoFile

Queries == {"pets", "space", "mixed"}

-----------------------------------------------------------------------------
(* text_embedder.py *)

\* TextEmbedder.embed_text: a fixed function from a text to a vector.
embed_text(text) ==
    CASE text = "cats"    -> <<3, 1>>
      [] text = "rockets" -> <<1, 3>>
      [] text = "stars"   -> <<1, 2>>
      [] text = "dogs"    -> <<2, 1>>
      [] text = "pets"    -> <<1, 0>>
      [] text = "space"   -> <<0, 1>>
      [] text = "mixed"   -> <<1, 1>>
      [] OTHER            -> <<1, 4>>

-----------------------------------------------------------------------------
(* document_processor.py *)

\* The loop of process_documents over a listing: non-.txt files are skipped,
\* a file that cannot be decoded raises out of the loop, keeping what was
\* appended so far.
RECURSIVE ProcessFiles(_, _, _)
ProcessFiles(files, titles, embeddings) ==
    IF files = << >>
    THEN [titles |-> titles, embeddings |-> embeddings, exc |-> "none"]
    ELSE LET f == Head(files) IN
         IF ~EndsWithTxt(f.name)
         THEN ProcessFiles(Tail(files), titles, embeddings)
         ELSE IF ~f.utf8
         THEN [titles |-> titles, embeddings |-> embeddings,
               exc |-> "UnicodeDecodeError"]
         ELSE ProcessFiles(Tail(files),
                           Append(titles, f.name),
                           Append(embeddings, embed_text(f.text)))

\* process_documents without the check of lines 34-38.
process_documents_unchecked(dir, titles, embeddings) ==
    IF ~DirExists(dir)
    THEN [titles |-> titles, embeddings |-> embeddings,
          exc |-> "FileNotFoundError"]
    ELSE ProcessFiles(listdir(dir), titles, embeddings)

\* DocumentProcessor.process_documents on a processor whose lists are
\* titles and embeddings: appends to them, raises ValueError when the
\* embeddings list is empty after the loop.
process_documents(dir, titles, embeddings) ==
    IF ~DirExists(dir)
    THEN [titles |-> titles, embeddings |-> embeddings,
          exc |-> "FileNotFoundError"]
    ELSE LET r == ProcessFiles(listdir(dir), titles, embeddings) IN
         IF r.exc = "none" /\ r.embeddings = << >>
         THEN [r EXCEPT !.exc = "ValueError"]
         ELSE r

\* except ValueError: UnicodeDecodeError is a subclass of ValueError.
IsValueError(exc) == exc \in {"ValueError", "UnicodeDecodeError"}

-----------------------------------------------------------------------------
(* qdrant_index.py *)

Min(a, b) == IF a <= b THEN a ELSE b

\* add_embeddings numbering the points from 1 (enumerate(..., 1)).
add_embeddings_from_one(embeddings, titles) ==
    [i \in 1..Min(Len(embeddings), Len(titles)) |->
        [id |-> i, vector |-> embeddings[i], title |-> titles[i]]]

\* QdrantIndex.add_embeddings: point i pairs embedding i with title i.
add_embeddings(embeddings, titles) ==
    [i \in 1..Min(Len(embeddings), Len(titles)) |->
        [id |-> i - 1, vector |-> embeddings[i], title |-> titles[i]]]

Dot(u, v) == u[1] * v[1] + u[2] * v[2]
Norm2(v) == Dot(v, v)

\* cosine(q, a) > cosine(q, b), without square roots.
CosGreater(q, a, b) ==
    LET sa == Dot(q, a)
        sb == Dot(q, b)
    IN  IF sa >= 0 /\ sb >= 0 THEN sa * sa * Norm2(b) > sb * sb * Norm2(a)
        ELSE IF sa >= 0 THEN TRUE
        ELSE IF sb >= 0 THEN FALSE
        ELSE sa * sa * Norm2(b) < sb * sb * Norm2(a)

\* The points not yet returned that no other such point beats.
Best(points, qv, taken) ==
    LET rest == (1..Len(points)) \ taken IN
    { m \in rest :
        \A j \in rest : ~CosGreater(qv, points[j].vector, points[m].vector) }

\* The k most similar points, most similar first.  This repository's code
\* does not decide the order of points of equal score; it is taken to be
\* insertion order (lower position first).
RECURSIVE Ranked(_, _, _)
Ranked(points, qv, k) ==
    IF k = 0
    THEN << >>
    ELSE LET s == Ranked(points, qv, k - 1)
             best == Best(points, qv, { s[i] : i \in 1..Len(s) })
         IN  Append(s, CHOOSE x \in best : \A y \in best : x <= y)

\* client.search(query_vector, limit): the positions of the
\* Min(limit, number of points) most similar points by cosine similarity.
SearchHits(points, qv, limit) == Ranked(points, qv, Min(limit, Len(points)))

\* QdrantIndex.search: the titles of the hits.
search(points, hits) == [i \in 1..Len(hits) |-> points[hits[i]].title]

-----------------------------------------------------------------------------
(* endpoint.py *)

\* What the completion endpoint does with one request.
Replies == {"ok", "no_message", "transport", "http500", "not_json"}

\* RequestSender.send: a requests.RequestException (transport failure,
\* raise_for_status on a non-2xx answer) and a body that is not JSON both
\* raise SystemExit; otherwise the parsed body is returned.
send(reply) ==
    CASE reply = "ok"         -> [raised |-> "none", body |-> "message"]
      [] reply = "no_message" -> [raised |-> "none", body |-> "other"]
      [] reply = "not_json"   -> [raised |-> "SystemExit", body |-> "none"]
      [] OTHER                -> [raised |-> "SystemExit", body |-> "none"]

-----------------------------------------------------------------------------
(* simple_rag.py *)

NoPayload ==
    [model |-> "", temperature |-> 0, top_p |-> 0, max_tokens |-> 0,
     stream |-> FALSE, query |-> "", content |-> << >>]

\* SimpleRAG._create_payload; the prompt is the pair (content, query).
create_payload(p, query, content) ==
    [model |-> p.model, temperature |-> p.temperature, top_p |-> p.top_p,
     max_tokens |-> p.max_tokens, stream |-> FALSE,
     query |-> query, content |-> content]

NoRetrieve ==
    [called |-> FALSE, outcome |-> "n/a", exc |-> "none", query |-> "",
     titles |-> << >>, hits |-> << >>, content |-> << >>]

\* The texts of the files dir/titles[i]; defined when all can be read.
ReadAll(dir, titles) == [i \in 1..Len(titles) |-> FileAt(dir, titles[i]).text]

Unreadable(dir, titles) ==
    { i \in 1..Len(titles) :
        FileAt(dir, titles[i]) = NoFile \/ ~FileAt(dir, titles[i]).utf8 }

\* SimpleRAG.retrieve, given the hits the index search answered with.  Any
\* exception is logged and raised again.
retrieve(dir, points, query, hits) ==
    LET titles == search(points, hits)
        bad == Unreadable(dir, titles)
    IN  IF bad # {}
        THEN LET first == CHOOSE i \in bad : \A j \in bad : i <= j IN
             [called |-> TRUE, outcome |-> "raise",
              exc |-> IF FileAt(dir, titles[first]) = NoFile
                      THEN "FileNotFoundError" ELSE "UnicodeDecodeError",
              query |-> query, titles |-> << >>, hits |-> hits,
              content |-> << >>]
        ELSE [called |-> TRUE, outcome |-> "ok", exc |-> "none",
              query |-> query, titles |-> titles, hits |-> hits,
              content |-> ReadAll(dir, titles)]

NoGenerate ==
    [called |-> FALSE, outcome |-> "n/a", reply |-> "n/a", payload |-> NoPayload]

\* SimpleRAG.generate_response: "text" is the returned response text, "None"
\* the None returned from the except Exception branch (a body without
\* message.content raises KeyError there); SystemExit is not an Exception
\* and leaves the method.
generate_response(p, query, content, reply) ==
    LET r == send(reply) IN
    [called |-> TRUE,
     outcome |-> IF r.raised = "SystemExit" THEN "SystemExit"
                 ELSE IF r.body = "message" THEN "text"
                 ELSE "None",
     reply |-> reply,
     payload |-> create_payload(p, query, content)]

\* create_simple_rag(documents_dir, ..., model, temperature, top_p,
\* max_tokens) with c the four sampling arguments: of them only max_tokens
\* is passed to SimpleRAG(...).
create_simple_rag(d, c) ==
    LET p == process_documents(d, << >>, << >>) IN
    IF IsValueError(p.exc)
    THEN [ret |-> "None", exc |-> p.exc, titles |-> << >>,
          embeddings |-> << >>, created |-> FALSE, points |-> << >>,
          params |-> DefaultParams]
    ELSE IF p.exc # "none"
    THEN [ret |-> "raise", exc |-> p.exc, titles |-> << >>,
          embeddings |-> << >>, created |-> FALSE, points |-> << >>,
          params |-> DefaultParams]
    ELSE [ret |-> "SimpleRAG", exc |-> "none", titles |-> p.titles,
          embeddings |-> p.embeddings, created |-> TRUE,
          points |-> add_embeddings(p.embeddings, p.titles),
          params |-> [DefaultParams EXCEPT !.max_tokens = c.max_tokens]]

\* SimpleRAG.update_documents(new_documents_dir) on an orchestrator whose
\* processor holds titles and embeddings and whose index holds points.
update_documents(titles, embeddings, points, d) ==
    LET p == process_documents(d, titles, embeddings) IN
    [dir |-> d, titles |-> p.titles, embeddings |-> p.embeddings,
     exc |-> p.exc,
     ret |-> IF IsValueError(p.exc) \/ p.exc = "none" THEN "None" ELSE "raise",
     points |-> IF p.exc = "none"
                THEN add_embeddings(p.embeddings, p.titles)
                ELSE points]

-----------------------------------------------------------------------------
(* State *)

IdleUpd ==
    [pc |-> "idle", dir |-> "", old_dir |-> "", old_titles |-> << >>,
     old_embeddings |-> << >>, old_index |-> << >>]

NoCall ==
    [op |-> "init", dir |-> "", exc |-> "none", ret |-> "n/a", rag |-> "None",
     r |-> NoRetrieve, g |-> NoGenerate]

Init ==
    /\ frontend \in {"main", "app", "api"}
    /\ pc = IF frontend = "main" THEN "start" ELSE "run"
    /\ simple_rag = "None"
    /\ documents_dir = ""
    /\ document_titles = << >>
    /\ document_embeddings = << >>
    /\ index_created = FALSE
    /\ index = << >>
    /\ params = DefaultParams
    /\ requested = DefaultParams
    /\ updates = 0
    /\ session = [documents_processed |-> FALSE, temp_dir |-> "",
                  widgets |-> DefaultParams]
    /\ upd = IdleUpd
    /\ last = NoCall

\* x = create_simple_rag(d, c) at a caller: the assignment does not happen
\* when the call raises.
Assign(res, d, c) ==
    IF res.ret = "raise"
    THEN UNCHANGED rag_vars
    ELSE /\ simple_rag' = res.ret
         /\ documents_dir' = IF res.ret = "SimpleRAG" THEN d ELSE ""
         /\ document_titles' = res.titles
         /\ document_embeddings' = res.embeddings
         /\ index_created' = res.created
         /\ index' = res.points
         /\ params' = res.params
         /\ requested' = IF res.ret = "SimpleRAG" THEN c ELSE DefaultParams
         /\ updates' = 0

CreateCall(res, d) ==
    [NoCall EXCEPT !.op = "create_simple_rag", !.dir = d, !.exc = res.exc,
                   !.ret = res.ret, !.rag = simple_rag]

\* retrieve followed by generate_response, as main() and app() call them.
\* generate_response is reached only when retrieve returned.
QueryCall(query, reply, hits) ==
    LET r == retrieve(documents_dir, index, query, hits)
        g == IF r.outcome = "ok"
             THEN generate_response(params, query, r.content, reply)
             ELSE NoGenerate
    IN  [NoCall EXCEPT !.op = "query", !.rag = simple_rag, !.r = r, !.g = g,
                       !.ret = IF r.outcome = "ok" THEN g.outcome ELSE r.exc]

-----------------------------------------------------------------------------
(* main.py *)

\* main(): create_simple_rag(documents_dir=args.documents_dir, ...) with no
\* sampling argument; exit(1) when it returns None.
MainBuild(d) ==
    /\ frontend = "main" /\ pc = "start"
    /\ LET res == create_simple_rag(d, DefaultParams) IN
       /\ Assign(res, d, DefaultParams)
       /\ pc' = IF res.ret = "SimpleRAG" THEN "query" ELSE "exited"
       /\ last' = CreateCall(res, d)
    /\ UNCHANGED <<frontend, session, upd>>

\* main(): the query, inside try / except Exception.
MainQuery(query) ==
    /\ frontend = "main" /\ pc = "query"
    /\ \E reply \in Replies :
         LET hits == SearchHits(index, embed_text(query), top_n)
             call == QueryCall(query, reply, hits)
         IN
         /\ last' = call
         /\ pc' = IF call.g.outcome = "SystemExit" THEN "exited" ELSE "done"
    /\ UNCHANGED <<frontend, rag_vars, session, upd>>

-----------------------------------------------------------------------------
(* app.py *)

\* The sets of files the uploader (type=["txt"]) can hand over: at least one
\* file, all of them .txt.
UploadDirs ==
    { d \in Dirs : /\ DirExists(d)
                   /\ listdir(d) # << >>
                   /\ \A i \in 1..Len(listdir(d)) : EndsWithTxt(listdir(d)[i].name) }

\* app(): the "Process Documents" button with uploaded files written to the
\* temporary directory d.
AppProcessDocuments(d) ==
    /\ frontend = "app"
    /\ d \in UploadDirs
    /\ LET res == create_simple_rag(d, session.widgets) IN
       /\ Assign(res, d, session.widgets)
       /\ last' = CreateCall(res, d)
    /\ session' = [session EXCEPT !.temp_dir = d, !.documents_processed = TRUE]
    /\ UNCHANGED <<frontend, pc, upd>>

\* A sampling widget changes to c: on_change=reinitialize_simple_rag.
AppWidgetChange(c) ==
    /\ frontend = "app"
    /\ c # session.widgets
    /\ session' = [session EXCEPT !.widgets = c]
    /\ IF session.temp_dir # ""
       THEN LET res == create_simple_rag(session.temp_dir, c) IN
            /\ Assign(res, session.temp_dir, c)
            /\ last' = CreateCall(res, session.temp_dir)
       ELSE /\ UNCHANGED rag_vars
            /\ last' = [NoCall EXCEPT !.op = "widget", !.rag = simple_rag]
    /\ UNCHANGED <<frontend, pc, upd>>

\* app(): a query is entered while documents_processed is set.
AppQuery(query) ==
    /\ frontend = "app"
    /\ session.documents_processed
    /\ IF simple_rag = "None"
       THEN last' = [NoCall EXCEPT !.op = "query", !.rag = "None",
                                   !.ret = "AttributeError"]
       ELSE \E reply \in Replies :
                last' = QueryCall(query, reply,
                                  SearchHits(index, embed_text(query), top_n))
    /\ UNCHANGED <<frontend, pc, rag_vars, session, upd>>

-----------------------------------------------------------------------------
(* A direct caller of simple_rag.py *)

ApiCreate(d, c) ==
    /\ frontend = "api"
    /\ upd.pc = "idle"
    /\ LET res == create_simple_rag(d, c) IN
       /\ Assign(res, d, c)
       /\ last' = CreateCall(res, d)
    /\ UNCHANGED <<frontend, pc, session, upd>>

\* simple_rag.update_documents(d), start to end.
ApiUpdate(d) ==
    /\ frontend = "api"
    /\ upd.pc = "idle"
    /\ simple_rag = "SimpleRAG"
    /\ updates < MaxUpdates
    /\ LET res == update_documents(document_titles, document_embeddings, index, d) IN
       /\ documents_dir' = res.dir
       /\ document_titles' = res.titles
       /\ document_embeddings' = res.embeddings
       /\ index' = res.points
       /\ last' = [NoCall EXCEPT !.op = "update_documents", !.dir = d,
                                 !.exc = res.exc, !.ret = res.ret,
                                 !.rag = simple_rag]
    /\ updates' = updates + 1
    /\ UNCHANGED <<frontend, pc, simple_rag, index_created, params, requested,
                   session, upd>>

\* A query whose retrieve runs the processor again before searching.
ApiQuery_reprocessing(query) ==
    /\ frontend = "api"
    /\ simple_rag = "SimpleRAG"
    /\ LET p == process_documents(documents_dir, document_titles,
                                  document_embeddings) IN
       /\ document_titles' = p.titles
       /\ document_embeddings' = p.embeddings
    /\ \E reply \in Replies :
           last' = QueryCall(query, reply,
                             SearchHits(index, embed_text(query), top_n))
    /\ UNCHANGED <<frontend, pc, simple_rag, documents_dir, index_created,
                   index, params, requested, updates, session, upd>>

ApiQuery(query) ==
    /\ frontend = "api"
    /\ simple_rag = "SimpleRAG"
    /\ \E reply \in Replies :
           last' = QueryCall(query, reply,
                             SearchHits(index, embed_text(query), top_n))
    /\ UNCHANGED <<frontend, pc, rag_vars, session, upd>>

-----------------------------------------------------------------------------
(* update_documents, statement by statement *)

\* line 135: self.processor.documents_dir = new_documents_dir
UpdateBegin(d) ==
    /\ frontend = "api"
    /\ upd.pc = "idle"
    /\ simple_rag = "SimpleRAG"
    /\ updates < MaxUpdates
    /\ documents_dir' = d
    /\ upd' = [pc |-> "process", dir |-> d, old_dir |-> documents_dir,
               old_titles |-> document_titles,
               old_embeddings |-> document_embeddings, old_index |-> index]
    /\ updates' = updates + 1
    /\ last' = [NoCall EXCEPT !.op = "update_documents", !.dir = d,
                              !.ret = "running", !.rag = simple_rag]
    /\ UNCHANGED <<frontend, pc, simple_rag, document_titles,
                   document_embeddings, index_created, index, params,
                   requested, session>>

\* lines 136-140: self.processor.process_documents()
UpdateProcess ==
    /\ upd.pc = "process"
    /\ LET p == process_documents(upd.dir, document_titles, document_embeddings) IN
       /\ document_titles' = p.titles
       /\ document_embeddings' = p.embeddings
       /\ upd' = IF p.exc = "none" THEN [upd EXCEPT !.pc = "create"] ELSE IdleUpd
       /\ last' = [NoCall EXCEPT !.op = "update_documents", !.dir = upd.dir,
                                 !.exc = p.exc, !.rag = simple_rag,
                                 !.ret = IF p.exc = "none" THEN "running"
                                         ELSE IF IsValueError(p.exc) THEN "None"
                                         ELSE "raise"]
    /\ UNCHANGED <<frontend, pc, simple_rag, documents_dir, index_created,
                   index, params, requested, updates, session>>

\* lines 142-143: self.index = QdrantIndex(dimension)
UpdateCreateIndex ==
    /\ upd.pc = "create"
    /\ index' = << >>
    /\ upd' = [upd EXCEPT !.pc = "add"]
    /\ UNCHANGED <<frontend, pc, simple_rag, documents_dir, document_titles,
                   document_embeddings, index_created, params, requested,
                   updates, session, last>>

\* lines 144-146: self.index.add_embeddings(...)
UpdateAdd ==
    /\ upd.pc = "add"
    /\ index' = add_embeddings(document_embeddings, document_titles)
    /\ upd' = IdleUpd
    /\ last' = [NoCall EXCEPT !.op = "update_documents", !.dir = upd.dir,
                              !.ret = "None", !.rag = simple_rag]
    /\ UNCHANGED <<frontend, pc, simple_rag, documents_dir, document_titles,
                   document_embeddings, index_created, params, requested,
                   updates, session>>

-----------------------------------------------------------------------------
(* Specifications *)

Next ==
    \/ \E d \in Dirs : MainBuild(d)
    \/ \E q \in Queries : MainQuery(q)
    \/ \E d \in Dirs : AppProcessDocuments(d)
    \/ \E c \in Configs : AppWidgetChange(c)
    \/ \E q \in Queries : AppQuery(q)
    \/ \E d \in Dirs, c \in Configs : ApiCreate(d, c)
    \/ \E d \in Dirs : ApiUpdate(d)
    \/ \E q \in Queries : ApiQuery(q)

Spec == Init /\ [][Next]_vars

\* A caller whose queries may run while update_documents is running.
InitSteps == Init /\ frontend = "api"

NextSteps ==
    \/ \E d \in Dirs, c \in Configs : ApiCreate(d, c)
    \/ \E d \in Dirs : UpdateBegin(d)
    \/ UpdateProcess
    \/ UpdateCreateIndex
    \/ UpdateAdd
    \/ \E q \in Queries : ApiQuery(q)

SpecSteps == InitSteps /\ [][NextSteps]_vars

-----------------------------------------------------------------------------
(* Properties *)

\* The directory exists and holds no .txt file.
NoSupportedFile(d) ==
    /\ DirExists(d)
    /\ \A i \in 1..Len(listdir(d)) : ~EndsWithTxt(listdir(d)[i].name)

\* What one processing pass over d alone produces.
DocumentsOf(d) == process_documents(d, << >>, << >>)

\* C1: when the completion call fails by a transport failure, a non-2xx
\* status or a body that cannot be parsed, generate_response returns None
\* (no exception, no exit) and the retrieved titles stay available.
C1_FailedCompletionReturnsNone ==
    (last.g.called /\ last.g.reply \in {"transport", "http500", "not_json"})
        => (last.g.outcome = "None" /\ last.r.outcome = "ok")

\* C2: after update_documents(new_dir) completes, the processor's titles and
\* embeddings and the index hold exactly the documents of new_dir.
C2_RebuildReplacesEntrySet ==
    (last.op = "update_documents" /\ last.ret = "None" /\ last.exc = "none")
        => /\ document_titles = DocumentsOf(last.dir).titles
           /\ document_embeddings = DocumentsOf(last.dir).embeddings
           /\ index = add_embeddings(DocumentsOf(last.dir).embeddings,
                                     DocumentsOf(last.dir).titles)

\* C3: an update_documents whose processing pass fails leaves documents_dir,
\* document_titles, document_embeddings and the index as they were.
C3_FailedRebuildKeepsState ==
    [][(last'.op = "update_documents" /\ last'.exc # "none")
         => UNCHANGED <<documents_dir, document_titles, document_embeddings,
                        index>>]_vars

\* C4: the outcome of update_documents on a failed processing pass differs
\* from the outcome of a successful rebuild, which is a plain return (None).
C4_FailedRebuildReported ==
    (last.op = "update_documents" /\ last.exc # "none") => last.ret # "None"

\* C5: create_simple_rag on a directory without a .txt file returns None and
\* leaves the system Unbuilt: no orchestrator, no index.
C5_EmptyBuildFails ==
    (last.op = "create_simple_rag" /\ NoSupportedFile(last.dir))
        => /\ last.ret = "None"
           /\ last.exc = "ValueError"
           /\ simple_rag = "None"
           /\ ~index_created
           /\ index = << >>

C5_Witness ==
    /\ last.op = "create_simple_rag"
    /\ NoSupportedFile(last.dir)
    /\ last.ret = "None"
    /\ simple_rag = "None"

\* C6: every processing pass over a directory without a supported file
\* fails with an error, in create_simple_rag and in update_documents alike.
C6_EveryEmptyPassFails ==
    (/\ last.op \in {"create_simple_rag", "update_documents"}
     /\ NoSupportedFile(last.dir))
        => last.exc # "none"

\* C7: a query attempted while there is no orchestrator fails with a state
\* error, in both front ends; it is never run against a missing orchestrator.
C7_QueryOnlyWhenReady ==
    (last.op = "query" /\ last.rag = "None") => last.ret = "StateError"

\* C8: at every point during update_documents the orchestrator shows either
\* the previous index with the previous directory or the complete new index
\* with the new directory.
C8_RebuildAtomic ==
    upd.pc # "idle" =>
        LET new == process_documents(upd.dir, upd.old_titles, upd.old_embeddings) IN
        \/ /\ documents_dir = upd.old_dir
           /\ index = upd.old_index
        \/ /\ documents_dir = upd.dir
           /\ new.exc = "none"
           /\ index = add_embeddings(new.embeddings, new.titles)

\* C9: each payload sent by generate_response carries the model,
\* temperature, top_p and max_tokens create_simple_rag was called with.
C9_PayloadCarriesConfigured ==
    last.g.called =>
        /\ last.g.payload.model = requested.model
        /\ last.g.payload.temperature = requested.temperature
        /\ last.g.payload.top_p = requested.top_p
        /\ last.g.payload.max_tokens = requested.max_tokens

SameScore(q, a, b) == ~CosGreater(q, a, b) /\ ~CosGreater(q, b, a)

\* C10: retrieve returns Min(top_n, entries) titles of indexed entries, by
\* non-increasing similarity with ties broken by lower id, and the content
\* is the text of exactly those documents in that order.
C10_RetrieveRanked ==
    last.r.called =>
        LET h == last.r.hits
            qv == embed_text(last.r.query)
        IN  /\ last.r.outcome = "ok"
            /\ Len(last.r.titles) = Min(top_n, Len(index))
            /\ Len(h) = Len(last.r.titles)
            /\ \A i \in 1..Len(h) : last.r.titles[i] = index[h[i]].title
            /\ \A i, j \in 1..Len(h) :
                  i < j =>
                     /\ ~CosGreater(qv, index[h[j]].vector, index[h[i]].vector)
                     /\ SameScore(qv, index[h[i]].vector, index[h[j]].vector)
                            => index[h[i]].id < index[h[j]].id
            /\ Len(last.r.content) = Len(h)
            /\ \A i \in 1..Len(h) :
                  embed_text(last.r.content[i]) = index[h[i]].vector

\* C11: update_documents called twice in a row with the same directory
\* leaves, after the second call, the titles, embeddings and index entries
\* the first call left.
C11_RebuildIdempotent ==
    [][(/\ last.op = "update_documents" /\ last.exc = "none"
        /\ last'.op = "update_documents" /\ last'.exc = "none"
        /\ last'.dir = last.dir)
         => UNCHANGED <<document_titles, document_embeddings, index>>]_vars

IsTxt(f) == EndsWithTxt(f.name)

\* The .txt files of d, in listing order.
TxtFiles(d) == SelectSeq(listdir(d), IsTxt)

\* C12: after a successful build the document set has one title and one
\* embedding per .txt file of the directory (non-.txt files skipped),
\* position i of both lists belonging to the same file, and the index has
\* that many entries, entry id i pairing embedding i with title i.
C12_BuildOneEntryPerFile ==
    (last.op = "create_simple_rag" /\ last.ret = "SimpleRAG") =>
        LET files == TxtFiles(last.dir) IN
        /\ Len(files) >= 1
        /\ Len(document_titles) = Len(files)
        /\ Len(document_embeddings) = Len(files)
        /\ \A i \in 1..Len(files) :
              /\ document_titles[i] = files[i].name
              /\ document_embeddings[i] = embed_text(files[i].text)
        /\ Len(index) = Len(files)
        /\ \A i \in 1..Len(index) :
              /\ index[i].id = i - 1
              /\ index[i].vector = document_embeddings[i]
              /\ index[i].title = document_titles[i]

\* A build of a directory holding two .txt files and one other file.
C12_Witness ==
    /\ last.op = "create_simple_rag"
    /\ last.ret = "SimpleRAG"
    /\ Len(listdir(last.dir)) > Len(TxtFiles(last.dir))
    /\ Len(index) = 2
    /\ document_titles = <<"a.txt", "b.txt">>

\* C13: a query (retrieve, generate_response), succeeding or failing, leaves
\* the index entries, the document set, the directory and the sampling
\* parameters unchanged; the index and the document set change only in
\* create_simple_rag and update_documents.
C13_QueriesChangeNothing ==
    [][/\ last'.op = "query"
          => UNCHANGED <<simple_rag, index_created, index, document_titles,
                         document_embeddings, documents_dir, params>>
       /\ (\/ index' # index
           \/ document_titles' # document_titles
           \/ document_embeddings' # document_embeddings)
          => last'.op \in {"create_simple_rag", "update_documents"}]_vars

\* A query on a rebuilt orchestrator whose retrieve returned and whose
\* completion call ended in SystemExit.
C13_Witness ==
    /\ last.op = "query"
    /\ last.r.outcome = "ok"
    /\ Len(last.r.titles) = top_n
    /\ last.g.outcome = "SystemExit"
    /\ updates > 0

====
